---- MODULE Spec2Model ----
(***************************************************************************)
(* Model of custom_components/olarm_sensors/config_flow.py: the setup flow *)
(* (OlarmSensorsConfigFlow.async_step_user) and the options flow           *)
(* (OlarmOptionsFlow.async_step_init).                                     *)
(*                                                                         *)
(* Python values are encoded as follows.                                   *)
(*   - an Optional value is a sequence of length <= 1: None is <<>> and a  *)
(*     value v is <<v>>;                                                   *)
(*   - a dict is a function from its keys; a missing key is a key that is  *)
(*     not in the DOMAIN;                                                  *)
(*   - a local variable is [bound |-> FALSE] before its first assignment   *)
(*     and [bound |-> TRUE, val |-> v] after it.                           *)
(* async_step_user suspends at its awaits (get_olarm_devices, sleep,       *)
(* update_data); pc is the position of the handler between two steps.      *)
(*                                                                         *)
(* One flow runs at a time. The setup step can be called until it creates  *)
(* the entry; from then on the options step works on that entry, and the   *)
(* record an options submission creates is the record the next one reads.  *)
(* get_olarm_devices returns a list, returns None or raises                *)
(* APIForbiddenError; update_data completes.                               *)
(***************************************************************************)
EXTENDS Integers, Sequences, FiniteSets, TLC

\* ---------------------------------------------------------------- bounds
\* Longest device list the remote service returns.
MaxDevices == 2
\* Longest list of monitored devices a user sends to the options step.
MaxSelected == 1

\* ------------------------------------------------------------- constants
CONF_API_KEY == "api_key"
CONF_SCAN_INTERVAL == "scan_interval"
CONF_ALARM_CODE == "alarm_code"
CONF_DEVICE_FIRMWARE == "device_firmware"
CONF_OLARM_DEVICES == "selected_olarm_devices"
OLARM_DEVICES == "olarm_devices"
OLARM_DEVICE_AMOUNT == "olarm_device_amount"
OLARM_DEVICE_NAMES == "olarm_device_names"
AUTHENTICATION_ERROR == "auth_error"

\* The placeholder the forms use for "no alarm code".
ALARM_CODE_PLACEHOLDER == "1234567890"
\* The smallest scan interval the step accepts.
MIN_SCAN_INTERVAL == 8

\* ------------------------------------------------------- python encoding
None == <<>>
Some(v) == <<v>>
Unbound == [bound |-> FALSE]
Bound(v) == [bound |-> TRUE, val |-> v]
EmptyDict == <<>>

\* d[k] = v of a Python dict: adds the key when it is missing.
DictSet(d, k, v) == [x \in (DOMAIN d) \cup {k} |-> IF x = k THEN v ELSE d[x]]

\* ---------------------------------------------------------------- devices
Device1 ==
    [deviceName |-> "Device1", deviceFirmware |-> "1.0",
     deviceId |-> "123", deviceAlarmType |-> "Paradox"]
Device2 ==
    [deviceName |-> "Device2", deviceFirmware |-> "1.1",
     deviceId |-> "124", deviceAlarmType |-> "IDS"]

\* The list the step uses instead of the remote call.
MockDevices == <<Device1, Device2>>

\* The devices the remote service knows.
DevicePool == {Device1, Device2}

\* What get_olarm_devices can return: a list of devices (empty included).
DeviceLists == UNION {[1..n -> DevicePool] : n \in 0..MaxDevices}

\* ----------------------------------------------------------------- inputs
ApiKeys == {"", "mock_api_key", "key1"}
ScanIntervals == {None, Some(0), Some(5), Some(8), Some(30)}
AlarmCodes == {ALARM_CODE_PLACEHOLDER, "4321"}

\* What the user can submit to the setup step.
UserInputs ==
    {[k \in {CONF_API_KEY, CONF_SCAN_INTERVAL, CONF_ALARM_CODE} |->
        CASE k = CONF_API_KEY -> a
          [] k = CONF_SCAN_INTERVAL -> s
          [] OTHER -> c] : a \in ApiKeys, s \in ScanIntervals, c \in AlarmCodes}

\* -------------------------------------------------------- pure functions
\* Python truth value of a scan interval: None and 0 are false.
Truthy(s) == s # None /\ s[1] # 0

\* Lines 50-57: the errors of the submitted fields.
Validate(ui) ==
    LET e1 == IF ui[CONF_API_KEY] = ""
              THEN DictSet(EmptyDict, CONF_API_KEY, "API key is required.")
              ELSE EmptyDict
    IN  IF ~Truthy(ui[CONF_SCAN_INTERVAL])
        THEN DictSet(e1, CONF_SCAN_INTERVAL, "Scan interval is required.")
        ELSE IF ui[CONF_SCAN_INTERVAL][1] < MIN_SCAN_INTERVAL
             THEN DictSet(e1, CONF_SCAN_INTERVAL,
                          "Scan interval must be at least 8 seconds.")
             ELSE e1

\* A variant of StoredAlarmCode that stores every code as submitted.
StoredAlarmCodeVerbatim(code) == Some(code)

\* Lines 62-66 and 222-226: the placeholder is stored as None.
StoredAlarmCode(code) ==
    IF code = ALARM_CODE_PLACEHOLDER THEN None ELSE Some(code)

\* A variant of IsMockKey that forgets the empty key.
IsMockKeyOnly(key) == key = "mock_api_key"

\* Line 68: the keys for which the remote call is skipped.
IsMockKey(key) == key \in {"mock_api_key", ""}

\* Line 101: the names of the devices, in the order of the list.
SetupDevices(devs) == [i \in 1..Len(devs) |-> devs[i].deviceName]

\* A variant of Firmware that takes the last device.
FirmwareOfLast(devs) == devs[Len(devs)].deviceFirmware

\* Line 104: the firmware of the first device.
Firmware(devs) == devs[1].deviceFirmware

\* Lines 111-119: the data of the temporary entry the coordinators get.
TempEntryData(key, scan, fw, code, names, devs) ==
    [k \in {CONF_API_KEY, CONF_SCAN_INTERVAL, CONF_DEVICE_FIRMWARE,
            CONF_ALARM_CODE, CONF_OLARM_DEVICES, OLARM_DEVICE_AMOUNT,
            OLARM_DEVICE_NAMES} |->
        CASE k = CONF_API_KEY -> key
          [] k = CONF_SCAN_INTERVAL -> scan
          [] k = CONF_DEVICE_FIRMWARE -> fw
          [] k = CONF_ALARM_CODE -> code
          [] k = CONF_OLARM_DEVICES -> names
          [] k = OLARM_DEVICE_AMOUNT -> Len(devs)
          [] OTHER -> names]

\* Lines 142-151: the data of the created entry.
EntryData(key, scan, fw, code, names, devs) ==
    DictSet(TempEntryData(key, scan, fw, code, names, devs),
            OLARM_DEVICES, devs)

\* A variant of LoopDone that leaves the loop after the first device.
LoopDoneAfterFirst(i, devs) == i > 1

\* Line 122: the loop over the devices is over.
LoopDone(i, devs) == i > Len(devs)

\* Lines 127-133: a coordinator as built for a device, before its first
\* update. What it keeps of hass and of the temporary entry is its own matter.
NewCoordinator(device) ==
    [device_id |-> device.deviceId, device_name |-> device.deviceName,
     device_make |-> device.deviceAlarmType, updated |-> FALSE]

\* Line 135: the coordinator after update_data has completed.
UpdatedCoordinator(c) == [c EXCEPT !.updated = TRUE]

\* Line 137: hass.data[DOMAIN][deviceId] = coordinator.
RegisterCoordinator(data, device, c) == DictSet(data, device.deviceId, c)

\* Lines 156-171: the defaults of the setup form.
UserGetSchema == [alarm_code_default |-> ALARM_CODE_PLACEHOLDER]

\* What get_olarm_devices did in this call of the step.
NotCalled == [kind |-> "not_called"]
Forbidden == [kind |-> "forbidden"]
Answered(answer) == [kind |-> "returned", val |-> answer]

\* ---------------------------------------------------------- flow results
NoResult == [type |-> "none"]
FormResult(id, errs, schema) ==
    [type |-> "form", step_id |-> id, errors |-> errs, data_schema |-> schema]
CreateEntryResult(d) == [type |-> "create_entry", title |-> "Olarm Sensors", data |-> d]
\* The handler ended in an exception nothing catches.
Raised(exc) == [type |-> "exception", exc |-> exc]

\* ------------------------------------------------------------------ state
VARIABLES
    pc,            \* position of the running handler, "idle" when none runs
    step,          \* the handler that runs or ran last: "none", "user", "init"
    user_input,    \* its argument: None or Some(dict)
    errors,        \* local of async_step_user
    api_key,       \* local of async_step_user
    scan_interval, \* local of async_step_user
    alarm_code,    \* local of async_step_user
    json,          \* local of async_step_user, unbound until assigned
    setup_devices, \* local of async_step_user
    firmware,      \* local of async_step_user
    temp_entry,    \* local of async_step_user
    idx,           \* position of the loop of line 122 in json
    coordinator,   \* local of async_step_user
    hass_data,     \* hass.data[DOMAIN]: device id -> coordinator
    config_entry,  \* the persisted record: None or Some(data)
    result,        \* what the last handler returned
    remote,        \* what the remote service answered in this call of the step
    enum_calls,    \* get_olarm_devices calls made by this call of the step
    registered     \* device ids registered by this call of the step, in order

vars == <<pc, step, user_input, errors, api_key, scan_interval, alarm_code,
          json, setup_devices, firmware, temp_entry, idx, coordinator,
          hass_data, config_entry, result, remote, enum_calls, registered>>

locals == <<errors, api_key, scan_interval, alarm_code, json, setup_devices,
            firmware, temp_entry, idx, coordinator>>

Init ==
    /\ pc = "idle"
    /\ step = "none"
    /\ user_input = None
    /\ errors = EmptyDict
    /\ api_key = Unbound
    /\ scan_interval = Unbound
    /\ alarm_code = Unbound
    /\ json = Unbound
    /\ setup_devices = Unbound
    /\ firmware = Unbound
    /\ temp_entry = Unbound
    /\ idx = 0
    /\ coordinator = Unbound
    /\ hass_data = EmptyDict
    /\ config_entry = None
    /\ result = NoResult
    /\ remote = NotCalled
    /\ enum_calls = 0
    /\ registered = <<>>

\* The handler returns or raises: its locals are gone.
ClearLocals ==
    /\ errors' = EmptyDict
    /\ api_key' = Unbound
    /\ scan_interval' = Unbound
    /\ alarm_code' = Unbound
    /\ json' = Unbound
    /\ setup_devices' = Unbound
    /\ firmware' = Unbound
    /\ temp_entry' = Unbound
    /\ idx' = 0
    /\ coordinator' = Unbound

\* ------------------------------------------------- async_step_user (setup)
\* Lines 42-45: the step is called without input and shows the form.
UserShowForm ==
    /\ pc = "idle"
    /\ config_entry = None
    /\ step' = "user"
    /\ user_input' = None
    /\ remote' = NotCalled
    /\ enum_calls' = 0
    /\ registered' = <<>>
    /\ result' = FormResult("user", EmptyDict, UserGetSchema)
    /\ UNCHANGED <<pc, locals, hass_data, config_entry>>

\* Lines 42-71 and 78-92: the form is submitted; the fields are validated and
\* the devices come from the remote service or from the fixed list.
UserSubmit(ui) ==
    /\ pc = "idle"
    /\ config_entry = None
    /\ step' = "user"
    /\ user_input' = Some(ui)
    /\ errors' = Validate(ui)
    /\ api_key' = ui[CONF_API_KEY]
    /\ scan_interval' = ui[CONF_SCAN_INTERVAL]
    /\ alarm_code' = StoredAlarmCode(ui[CONF_ALARM_CODE])
    /\ setup_devices' = Unbound
    /\ firmware' = Unbound
    /\ temp_entry' = Unbound
    /\ idx' = 0
    /\ coordinator' = Unbound
    /\ registered' = <<>>
    /\ result' = NoResult
    /\ remote' = NotCalled
    /\ IF ~IsMockKey(ui[CONF_API_KEY])
       THEN /\ json' = Unbound
            /\ enum_calls' = 1
            /\ pc' = "get_olarm_devices"
       ELSE /\ json' = Bound(Some(MockDevices))
            /\ enum_calls' = 0
            /\ pc' = "check"
    /\ UNCHANGED <<hass_data, config_entry>>

\* Line 71: get_olarm_devices returns a list of devices or None.
GetOlarmDevicesReturns(answer) ==
    /\ pc = "get_olarm_devices"
    /\ json' = Bound(answer)
    /\ remote' = Answered(answer)
    /\ pc' = "check"
    /\ UNCHANGED <<step, user_input, errors, api_key, scan_interval,
                   alarm_code, setup_devices, firmware, temp_entry, idx,
                   coordinator, hass_data, config_entry, result, enum_calls,
                   registered>>

\* Lines 71-77: get_olarm_devices raises APIForbiddenError; json stays
\* unassigned.
GetOlarmDevicesForbidden ==
    /\ pc = "get_olarm_devices"
    /\ errors' = DictSet(errors, AUTHENTICATION_ERROR, "Invalid credentials!")
    /\ remote' = Forbidden
    /\ pc' = "check"
    /\ UNCHANGED <<step, user_input, api_key, scan_interval, alarm_code, json,
                   setup_devices, firmware, temp_entry, idx, coordinator,
                   hass_data, config_entry, result, enum_calls, registered>>

\* Lines 94-120: the answer is checked, the form is shown again when there are
\* errors, and otherwise the names, the firmware and the temporary entry are
\* computed. The locals are gone when the handler returns or raises.
CheckResult ==
    /\ pc = "check"
    /\ IF ~json.bound
       THEN \* line 94 reads a local that was never assigned
            /\ result' = Raised("UnboundLocalError")
            /\ pc' = "idle"
            /\ ClearLocals
       ELSE LET errs == IF json.val = None
                        THEN DictSet(errors, AUTHENTICATION_ERROR,
                                     "Invalid credentials!")
                        ELSE errors
            IN  IF DOMAIN errs # {}
                THEN /\ result' = FormResult("user", errs, UserGetSchema)
                     /\ pc' = "idle"
                     /\ ClearLocals
                ELSE IF Len(json.val[1]) = 0
                     THEN \* line 104 indexes an empty list
                          /\ result' = Raised("IndexError")
                          /\ pc' = "idle"
                          /\ ClearLocals
                     ELSE /\ setup_devices' = SetupDevices(json.val[1])
                          /\ firmware' = Firmware(json.val[1])
                          /\ temp_entry' =
                               TempEntryData(api_key, scan_interval,
                                             Firmware(json.val[1]), alarm_code,
                                             SetupDevices(json.val[1]),
                                             json.val[1])
                          /\ idx' = 1
                          /\ pc' = "loop"
                          /\ UNCHANGED <<result, errors, api_key, scan_interval,
                                         alarm_code, json, coordinator>>
    /\ UNCHANGED <<step, user_input, hass_data, config_entry, remote,
                   enum_calls, registered>>

\* Lines 122-133: the next device of the list; after the sleep its coordinator
\* is built, and update_data is awaited.
LoopBuild ==
    /\ pc = "loop"
    /\ ~LoopDone(idx, json.val[1])
    /\ LET device == json.val[1][idx]
       IN  IF \A i \in 1..Len(setup_devices) : setup_devices[i] # device.deviceName
           THEN /\ idx' = idx + 1
                /\ UNCHANGED <<pc, coordinator>>
           ELSE /\ coordinator' = NewCoordinator(device)
                /\ pc' = "update_data"
                /\ UNCHANGED idx
    /\ UNCHANGED <<step, user_input, errors, api_key, scan_interval,
                   alarm_code, json, setup_devices, firmware, temp_entry,
                   hass_data, config_entry, result, remote, enum_calls,
                   registered>>

\* Line 135: update_data of the coordinator completes.
UpdateData ==
    /\ pc = "update_data"
    /\ coordinator' = UpdatedCoordinator(coordinator)
    /\ pc' = "register"
    /\ UNCHANGED <<step, user_input, errors, api_key, scan_interval,
                   alarm_code, json, setup_devices, firmware, temp_entry, idx,
                   hass_data, config_entry, result, remote, enum_calls,
                   registered>>

\* Line 137: the coordinator is registered under the id of its device.
Register ==
    /\ pc = "register"
    /\ hass_data' = RegisterCoordinator(hass_data, json.val[1][idx], coordinator)
    /\ registered' = Append(registered, json.val[1][idx].deviceId)
    /\ idx' = idx + 1
    /\ pc' = "loop"
    /\ UNCHANGED <<step, user_input, errors, api_key, scan_interval,
                   alarm_code, json, setup_devices, firmware, temp_entry,
                   coordinator, config_entry, result, remote, enum_calls>>

\* Lines 139-152: the loop is over, the entry is created and the handler
\* returns.
CreateEntry ==
    /\ pc = "loop"
    /\ LoopDone(idx, json.val[1])
    /\ LET data == EntryData(api_key, scan_interval, firmware, alarm_code,
                             setup_devices, json.val[1])
       IN  /\ result' = CreateEntryResult(data)
           /\ config_entry' = Some(data)
    /\ pc' = "idle"
    /\ ClearLocals
    /\ UNCHANGED <<step, user_input, hass_data, remote, enum_calls, registered>>

\* ------------------------------------------------ async_step_init (options)
\* Lines 189-215: the defaults and the choices of the options form.
OptionsGetSchema(data) ==
    [api_key_default |-> data[CONF_API_KEY],
     scan_interval_default |-> data[CONF_SCAN_INTERVAL],
     alarm_code_default |-> IF data[CONF_ALARM_CODE] = None
                            THEN ALARM_CODE_PLACEHOLDER
                            ELSE data[CONF_ALARM_CODE][1],
     olarm_devices_choices |-> data[OLARM_DEVICE_NAMES]]

\* The elements of a list.
Elems(s) == {s[i] : i \in 1..Len(s)}

\* Lines 197-215: what the schema accepts. The scan interval is at least 8,
\* and the monitored devices, when given, are among the choices.
OptionsSchemaAccepts(schema, raw) ==
    /\ raw[CONF_SCAN_INTERVAL] # None
    /\ raw[CONF_SCAN_INTERVAL][1] >= MIN_SCAN_INTERVAL
    /\ CONF_OLARM_DEVICES \in DOMAIN raw =>
         Elems(raw[CONF_OLARM_DEVICES]) \subseteq Elems(schema.olarm_devices_choices)

\* A variant of OptionsNewData that also narrows the device names to the
\* selection.
OptionsNewDataNarrowsNames(data, ui) ==
    LET n1 == DictSet(data, CONF_ALARM_CODE, StoredAlarmCode(ui[CONF_ALARM_CODE]))
        n2 == DictSet(n1, OLARM_DEVICE_AMOUNT, Len(data[OLARM_DEVICE_NAMES]))
        n3 == DictSet(n2, CONF_SCAN_INTERVAL, ui[CONF_SCAN_INTERVAL])
        n4 == DictSet(n3, CONF_API_KEY, ui[CONF_API_KEY])
        n5 == DictSet(n4, OLARM_DEVICE_NAMES, ui[CONF_OLARM_DEVICES])
    IN  DictSet(n5, CONF_OLARM_DEVICES, ui[CONF_OLARM_DEVICES])

\* A variant of OptionsNewData that counts the selected devices.
OptionsNewDataCountsSelection(data, ui) ==
    LET n1 == DictSet(data, CONF_ALARM_CODE, StoredAlarmCode(ui[CONF_ALARM_CODE]))
        n2 == DictSet(n1, OLARM_DEVICE_AMOUNT, Len(ui[CONF_OLARM_DEVICES]))
        n3 == DictSet(n2, CONF_SCAN_INTERVAL, ui[CONF_SCAN_INTERVAL])
        n4 == DictSet(n3, CONF_API_KEY, ui[CONF_API_KEY])
    IN  DictSet(n4, CONF_OLARM_DEVICES, ui[CONF_OLARM_DEVICES])

\* Lines 228-234: the new record, the old one with five keys replaced.
OptionsNewData(data, ui) ==
    LET n1 == DictSet(data, CONF_ALARM_CODE, StoredAlarmCode(ui[CONF_ALARM_CODE]))
        n2 == DictSet(n1, OLARM_DEVICE_AMOUNT, Len(data[OLARM_DEVICE_NAMES]))
        n3 == DictSet(n2, CONF_SCAN_INTERVAL, ui[CONF_SCAN_INTERVAL])
        n4 == DictSet(n3, CONF_API_KEY, ui[CONF_API_KEY])
    IN  DictSet(n4, CONF_OLARM_DEVICES, ui[CONF_OLARM_DEVICES])

\* The lists of device names a user can send as the monitored devices.
Selections == UNION {[1..n -> {d.deviceName : d \in DevicePool}] : n \in 0..MaxSelected}

\* What reaches the options step: the monitored devices are optional and may
\* be missing; the alarm code is always there, because the schema fills in its
\* default (lines 207-210) when the user leaves it out.
OptionsInputs ==
    UserInputs \cup
    {DictSet(r, CONF_OLARM_DEVICES, sel) : r \in UserInputs, sel \in Selections}

\* Lines 221 and 238-241: the step is called without input and shows the form.
InitShowForm ==
    /\ pc = "idle"
    /\ config_entry # None
    /\ step' = "init"
    /\ user_input' = None
    /\ result' = FormResult("init", EmptyDict, OptionsGetSchema(config_entry[1]))
    /\ remote' = NotCalled
    /\ enum_calls' = 0
    /\ registered' = <<>>
    /\ UNCHANGED <<pc, locals, hass_data, config_entry>>

\* Lines 221-236: the options form is submitted with an input the schema
\* accepts; the entry is created with the new record, which replaces the
\* persisted one. An input without the monitored devices fails at line 234.
InitSubmit(ui) ==
    /\ pc = "idle"
    /\ config_entry # None
    /\ OptionsSchemaAccepts(OptionsGetSchema(config_entry[1]), ui)
    /\ user_input' = Some(ui)
    /\ IF CONF_OLARM_DEVICES \in DOMAIN ui
       THEN /\ result' = CreateEntryResult(OptionsNewData(config_entry[1], ui))
            /\ config_entry' = Some(OptionsNewData(config_entry[1], ui))
       ELSE /\ result' = Raised("KeyError")
            /\ UNCHANGED config_entry
    /\ step' = "init"
    /\ remote' = NotCalled
    /\ enum_calls' = 0
    /\ registered' = <<>>
    /\ UNCHANGED <<pc, locals, hass_data>>

\* ---------------------------------------------------------- specification
Next ==
    \/ UserShowForm
    \/ \E ui \in UserInputs : UserSubmit(ui)
    \/ \E answer \in {None} \cup {Some(l) : l \in DeviceLists} :
           GetOlarmDevicesReturns(answer)
    \/ GetOlarmDevicesForbidden
    \/ CheckResult
    \/ LoopBuild
    \/ UpdateData
    \/ Register
    \/ CreateEntry
    \/ InitShowForm
    \/ \E ui \in OptionsInputs : InitSubmit(ui)

Spec == Init /\ [][Next]_vars

\* ------------------------------------------------------------- properties
\* A call of the setup step with a submitted form has returned.
SetupSubmitted == step = "user" /\ pc = "idle" /\ user_input # None

\* A call of the options step with a submitted form has returned.
OptionsSubmitted == step = "init" /\ pc = "idle" /\ user_input # None

\* The submitted setup fields pass the validation of lines 50-57.
InputIsValid ==
    /\ user_input[1][CONF_API_KEY] # ""
    /\ user_input[1][CONF_SCAN_INTERVAL] # None
    /\ user_input[1][CONF_SCAN_INTERVAL][1] >= 8

\* The remote service answered this call of the step with a list of devices.
GotList == remote.kind = "returned" /\ remote.val # None

\* The step returned a form, or created an entry.
Returned(type) == result.type = type

\* C1: a setup submission whose credential the remote service rejects returns
\* the setup form with the authentication error, creates no entry and
\* registers no coordinator.
C1_ForbiddenShowsAuthError ==
    (SetupSubmitted /\ remote = Forbidden) =>
        /\ Returned("form")
        /\ result.step_id = "user"
        /\ AUTHENTICATION_ERROR \in DOMAIN result.errors
        /\ result.errors[AUTHENTICATION_ERROR] = "Invalid credentials!"
        /\ config_entry = None
        /\ registered = <<>>

\* C2: a valid setup submission for which the remote service returns a
\* non-empty list creates an entry with the submitted API key and scan
\* interval, the firmware of the first device, the returned list, its names in
\* order as monitored devices and as device names, and its length as amount.
C2_EntryHoldsSubmission ==
    (SetupSubmitted /\ InputIsValid /\ GotList /\ Len(remote.val[1]) > 0) =>
        LET devs == remote.val[1]
            names == [i \in 1..Len(devs) |-> devs[i].deviceName]
        IN  /\ Returned("create_entry")
            /\ config_entry = Some(result.data)
            /\ result.data[CONF_API_KEY] = user_input[1][CONF_API_KEY]
            /\ result.data[CONF_SCAN_INTERVAL] = user_input[1][CONF_SCAN_INTERVAL]
            /\ result.data[CONF_DEVICE_FIRMWARE] = devs[1].deviceFirmware
            /\ result.data[OLARM_DEVICES] = devs
            /\ result.data[CONF_OLARM_DEVICES] = names
            /\ result.data[OLARM_DEVICE_NAMES] = names
            /\ result.data[OLARM_DEVICE_AMOUNT] = Len(devs)

\* A valid submission got two devices of different firmware and the entry
\* was created.
C2_Witness ==
    /\ SetupSubmitted
    /\ GotList
    /\ Returned("create_entry")
    /\ Len(remote.val[1]) = 2
    /\ remote.val[1][1].deviceFirmware # remote.val[1][2].deviceFirmware

\* C3: every input the options schema accepts, the monitored devices left out
\* included, creates an entry whose monitored devices are the selection, a
\* subset of the discovered names.
C3_OptionsAlwaysCreatesEntry ==
    OptionsSubmitted =>
        /\ Returned("create_entry")
        /\ CONF_OLARM_DEVICES \in DOMAIN user_input[1] =>
             result.data[CONF_OLARM_DEVICES] = user_input[1][CONF_OLARM_DEVICES]
        /\ Elems(result.data[CONF_OLARM_DEVICES])
             \subseteq Elems(result.data[OLARM_DEVICE_NAMES])

\* C4: a setup submission calls get_olarm_devices once when the key is neither
\* empty nor the mock key and never otherwise, when the fixed two devices are
\* used; showing a form and the options step never call it.
C4_AtMostOneEnumeration ==
    /\ enum_calls <= 1
    /\ (step = "user" /\ user_input # None) =>
         IF user_input[1][CONF_API_KEY] \in {"", "mock_api_key"}
         THEN /\ enum_calls = 0
              /\ remote = NotCalled
              /\ pc # "idle" => json = Bound(Some(<<Device1, Device2>>))
         ELSE /\ enum_calls = 1
              /\ pc \notin {"idle", "get_olarm_devices"} =>
                     /\ remote # NotCalled
                     /\ remote # Forbidden => json = Bound(remote.val)
    /\ user_input = None => enum_calls = 0 /\ remote = NotCalled
    /\ step = "init" => enum_calls = 0 /\ remote = NotCalled

\* A submission with a real key ended after its one call, and an entry exists.
C4_Witness ==
    /\ SetupSubmitted
    /\ ~(user_input[1][CONF_API_KEY] \in {"", "mock_api_key"})
    /\ enum_calls = 1
    /\ Returned("create_entry")

\* C5: a setup submission with an empty API key or a missing, zero or too
\* small scan interval returns the form with the error under that field,
\* creates no entry and registers no coordinator, whatever the remote service
\* answers.
C5_InvalidInputShowsForm ==
    LET ui == user_input[1]
        badKey == ui[CONF_API_KEY] = ""
        badScan == \/ ui[CONF_SCAN_INTERVAL] = None
                   \/ ui[CONF_SCAN_INTERVAL][1] < 8
    IN  (SetupSubmitted /\ (badKey \/ badScan)) =>
            /\ Returned("form")
            /\ badKey => CONF_API_KEY \in DOMAIN result.errors
            /\ badScan => CONF_SCAN_INTERVAL \in DOMAIN result.errors
            /\ config_entry = None
            /\ registered = <<>>

\* The form of the options step is open and the step is submitted.
OptionsFormSubmitted ==
    /\ step = "init" /\ Returned("form")
    /\ step' = "init" /\ user_input' # None /\ result'.type = "create_entry"

\* C6: the placeholder is stored as None and every other alarm code as
\* submitted, by both steps; the options form offers a stored None as the
\* placeholder; and submitting the open options form with the alarm code it
\* offers leaves the stored alarm code as it was.
C6_AlarmCodeRoundTrip ==
    /\ [](Returned("create_entry") =>
            /\ config_entry = Some(result.data)
            /\ result.data[CONF_ALARM_CODE] =
                 IF user_input[1][CONF_ALARM_CODE] = "1234567890"
                 THEN None
                 ELSE Some(user_input[1][CONF_ALARM_CODE]))
    /\ []((step = "init" /\ Returned("form")) =>
            result.data_schema.alarm_code_default =
                 IF config_entry[1][CONF_ALARM_CODE] = None
                 THEN "1234567890"
                 ELSE config_entry[1][CONF_ALARM_CODE][1])
    /\ [][(OptionsFormSubmitted /\
           user_input'[1][CONF_ALARM_CODE] = result.data_schema.alarm_code_default)
          => config_entry'[1][CONF_ALARM_CODE] = config_entry[1][CONF_ALARM_CODE]]_vars

\* The options step stored None for a submitted placeholder.
C6_Witness ==
    /\ OptionsSubmitted
    /\ Returned("create_entry")
    /\ user_input[1][CONF_ALARM_CODE] = "1234567890"
    /\ config_entry[1][CONF_ALARM_CODE] = None

\* The ids of the first n devices of the list, in order.
IdsOf(devs, n) == [i \in 1..n |-> devs[i].deviceId]

\* C7: every registered coordinator was updated first and is registered under
\* the id of its device; the devices are handled one at a time in the order
\* of the list; and the entry is created only when every device of the list
\* has a registered coordinator.
C7_UpdateThenRegisterThenCreate ==
    /\ \A id \in DOMAIN hass_data :
           hass_data[id].updated /\ hass_data[id].device_id = id
    /\ pc = "update_data" =>
           /\ ~coordinator.updated
           /\ registered = IdsOf(json.val[1], idx - 1)
    /\ pc = "register" =>
           /\ coordinator.updated
           /\ coordinator.device_id = json.val[1][idx].deviceId
           /\ registered = IdsOf(json.val[1], idx - 1)
    /\ pc = "loop" => registered = IdsOf(json.val[1], idx - 1)
    /\ (step = "user" /\ Returned("create_entry")) =>
           LET devs == result.data[OLARM_DEVICES]
           IN  /\ registered = IdsOf(devs, Len(devs))
               /\ \A i \in 1..Len(devs) : devs[i].deviceId \in DOMAIN hass_data

\* The entry was created after two devices of different ids were registered.
C7_Witness ==
    /\ step = "user"
    /\ Returned("create_entry")
    /\ Len(registered) = 2
    /\ registered[1] # registered[2]

\* The keys the options step may change.
OptionsKeys ==
    {CONF_ALARM_CODE, CONF_SCAN_INTERVAL, CONF_API_KEY, CONF_OLARM_DEVICES,
     OLARM_DEVICE_AMOUNT}

\* C8: an options submission changes at most the alarm code, the scan
\* interval, the API key, the monitored devices and the device amount of the
\* record; every other key keeps its value; and the API key is taken as
\* submitted, without a remote call.
C8_OptionsFrame ==
    [][(pc = "idle" /\ config_entry # None /\ step' = "init" /\
        user_input' # None /\ result'.type = "create_entry")
       => /\ config_entry' = Some(result'.data)
          /\ DOMAIN config_entry'[1] = DOMAIN config_entry[1]
          /\ \A k \in (DOMAIN config_entry[1]) \ OptionsKeys :
                 config_entry'[1][k] = config_entry[1][k]
          /\ config_entry'[1][CONF_API_KEY] = user_input'[1][CONF_API_KEY]
          /\ enum_calls' = 0
          /\ remote' = NotCalled
          /\ hass_data' = hass_data]_vars

\* The options step stored an empty API key and a selection that is not the
\* list of the two discovered names.
C8_Witness ==
    /\ OptionsSubmitted
    /\ Returned("create_entry")
    /\ config_entry[1][CONF_API_KEY] = ""
    /\ Len(config_entry[1][OLARM_DEVICE_NAMES]) = 2
    /\ config_entry[1][CONF_OLARM_DEVICES] # config_entry[1][OLARM_DEVICE_NAMES]

\* C9: in the persisted record the device amount is the length of the device
\* names, which is the number of discovered devices of the record.
C9_AmountMatchesNames ==
    config_entry # None =>
        /\ config_entry[1][OLARM_DEVICE_AMOUNT] = Len(config_entry[1][OLARM_DEVICE_NAMES])
        /\ Len(config_entry[1][OLARM_DEVICE_NAMES]) = Len(config_entry[1][OLARM_DEVICES])

\* The options step stored a selection shorter than the two discovered
\* devices.
C9_Witness ==
    /\ OptionsSubmitted
    /\ Returned("create_entry")
    /\ Len(config_entry[1][OLARM_DEVICES]) = 2
    /\ Len(config_entry[1][CONF_OLARM_DEVICES]) < 2

\* C10: a setup submission ends in a shown form or a created entry whenever
\* the remote service answers with a list, empty or not, or with None.
C10_SetupEndsInFlowResult ==
    (SetupSubmitted /\ remote.kind = "returned") =>
        (Returned("form") \/ Returned("create_entry"))
====
